---- MODULE Spec2Model ----
(***************************************************************************)
(* A model of orijtech/frontender: the livelyProxy (route table, live      *)
(* address cache, round-robin cursor), the per-prefix cycle loops started  *)
(* by run, the ServeHTTP dispatcher, the dispatch server with the          *)
(* ListenConfirmation's Close and Wait, package lively's probe round and   *)
(* Peer.AddPeer, and Listen with Request.Validate and SynthesizeDomains.   *)
(*                                                                         *)
(* Strings that the code inspects (route prefixes, request paths) are      *)
(* sequences of one-character strings; backend addresses are opaque.       *)
(***************************************************************************)
EXTENDS Integers, Sequences, FiniteSets, TLC

VARIABLES
    prefixRouter,        \* req.PrefixRouter: prefix -> sequence of addresses
    longestPrefixFirst,  \* lp.longestPrefixFirst
    liveAddresses,       \* lp.liveAddresses (a Go map: absent key = nil slice)
    next,                \* lp.next (a Go map: absent key = 0)
    mu,                  \* lp.mu: "free" or "held"
    loop,                \* the goroutine run starts per route
    disp,                \* the goroutines serving requests (ServeHTTP)
    sel,                 \* history: per route, the selections since the last publish
    nDispatch,           \* history: number of requests accepted so far
    unreachable,         \* backends that have become transport-unreachable for good
    closer,              \* the goroutines calling ListenConfirmation.Close
    closeOnce,           \* the sync.Once of closeFn: [done, m]
    listenerCloses,      \* history: how many times listener.Close() was invoked
    proxyAddresses,      \* req.ProxyAddresses
    server,              \* the goroutine of runAndCreateListener running http.Serve
    waiter,              \* the goroutines calling ListenConfirmation.Wait
    resp,                \* history: what ServeHTTP did with the request served last
    ll,                  \* one call of Peer.Liveliness on a primary
    listen,              \* one call of Listen: the request and how far it got
    membership           \* a primary under AddPeer: p.Peers, p.mu and its users

vars == <<prefixRouter, longestPrefixFirst, liveAddresses, next, mu, loop, disp,
          sel, nDispatch, unreachable, closer, closeOnce, listenerCloses,
          proxyAddresses, server, waiter, resp, ll, listen, membership>>

----------------------------------------------------------------------------
(* Bounds of the model *)

\* requests accepted by the dispatch server in one run
MaxDispatch == 4
\* calls of lp.cycle per route in SpecLP
MaxCycles == 2
\* backends that may become unreachable for good in one run
MaxUnreachable == 1
\* calls of Close per calling goroutine
MaxCloseCalls == 2
\* calls of Wait per calling goroutine
MaxWaitCalls == 1
\* entries of req.Domains
MaxDomains == 3

Dispatchers == {"d1", "d2"}
Closers == {"c1", "c2"}
Waiters == {"w1", "w2"}

----------------------------------------------------------------------------
(* Strings *)

Root == <<"/">>
Fo == <<"/", "f", "o">>
Foo == <<"/", "f", "o", "o">>
Ba == <<"/", "b", "a">>
NoString == <<>>

\* strings.HasPrefix
HasPrefix(s, prefix) ==
    /\ Len(prefix) <= Len(s)
    /\ SubSeq(s, 1, Len(prefix)) = prefix

\* the request paths the dispatchers of the running system receive
Paths == { <<"/", "x">>, Foo, <<"/", "f", "o", "o", "/", "x">>, <<"z">> }
\* the same and a path that continues a prefix without a "/"
ServePaths == Paths \cup { <<"/", "f", "o", "o", "x">> }

\* the request paths longest-prefix matching is checked on
RoutePaths ==
    Paths \cup { <<"/", "f", "o", "x">>, <<"/", "f", "o", "o", "/", "b", "a", "r">>,
                 <<"/", "z">>, <<"/", "b", "a">>, <<"/">> }

\* the route table of the running system: two prefixes, three backends
DefaultRouter == (Root :> <<"A", "B">>) @@ (Foo :> <<"C">>)

\* the route tables longest-prefix matching is checked on
PrefixUniverse == {NoString, Root, Fo, Foo, Ba}
RouteTables ==
    { [p \in ks |-> <<"A">>] : ks \in SUBSET PrefixUniverse }


\* req.hasAtLeastOneProxy(), which Validate requires: with an empty
\* PrefixRouter a non-empty address in ProxyAddresses, otherwise one in some
\* list of PrefixRouter
HasAtLeastOneProxy(req) ==
    IF req.isNil THEN FALSE
    ELSE IF DOMAIN req.PrefixRouter = {}
    THEN \E i \in 1..Len(req.ProxyAddresses) : req.ProxyAddresses[i] # ""
    ELSE \E p \in DOMAIN req.PrefixRouter :
            \E i \in 1..Len(req.PrefixRouter[p]) : req.PrefixRouter[p][i] # ""

\* the requests Listen accepts: a flat list of addresses, a route table, or both
ListenRequests ==
    { req \in [isNil : {FALSE}, ProxyAddresses : {<<>>, <<"A", "B">>},
                PrefixRouter : RouteTables] :
         HasAtLeastOneProxy(req) }

Routes == DOMAIN prefixRouter
Backends == UNION { { prefixRouter[r][i] : i \in 1..Len(prefixRouter[r]) } : r \in Routes }

\* reading a Go map: the zero value for an absent key
MapGet(m, k, zero) == IF k \in DOMAIN m THEN m[k] ELSE zero
\* a write that sets the entry of every key of the map, not only that of k
MapPutEveryKey(m, k, v) == [x \in DOMAIN m \cup {k} |-> v]
\* writing a Go map
MapPut(m, k, v) == [x \in DOMAIN m \cup {k} |-> IF x = k THEN v ELSE m[x]]

\* every list of Len(s) picks from s, with repeats
Resamples(s) == { [i \in 1..Len(s) |-> s[f[i]]] : f \in [1..Len(s) -> 1..Len(s)] }

Bijections(n) == { f \in [1..n -> 1..n] : \A i, j \in 1..n : f[i] = f[j] => i = j }
\* every order of the elements of s
Shuffles(s) == { [i \in 1..Len(s) |-> s[f[i]]] : f \in Bijections(Len(s)) }

----------------------------------------------------------------------------
(* makeLivelyProxy: the sorted prefix list *)

\* the comparator handed to sort.Slice
LessLenAscending(si, sj) == Len(si) <= Len(sj)
Less(si, sj) == Len(si) >= Len(sj)

Swap(data, i, j) == [data EXCEPT ![i] = data[j], ![j] = data[i]]

\* the inner loop of an insertion sort: element j sinks while Less(j, j-1)
RECURSIVE Sink(_, _)
Sink(data, j) ==
    IF j > 1 /\ Less(data[j], data[j - 1])
    THEN Sink(Swap(data, j, j - 1), j - 1)
    ELSE data

RECURSIVE InsertionSort(_, _)
InsertionSort(data, i) ==
    IF i > Len(data) THEN data ELSE InsertionSort(Sink(data, i), i + 1)

\* sort.Slice on a slice of at most 6 elements is one insertion sort
SortSlice(data) == InsertionSort(data, 2)

\* ranging over the map pr yields its keys in any order
KeyOrders(pr) ==
    { s \in [1..Cardinality(DOMAIN pr) -> DOMAIN pr] :
        \A i, j \in 1..Cardinality(DOMAIN pr) : s[i] = s[j] => i = j }

----------------------------------------------------------------------------
(* The state after Listen has returned *)

IdleDispatcher == [pc |-> "idle", path |-> NoString, route |-> NoString,
                   list |-> <<>>, addr |-> "", ver |-> 0]
NewLoop == [pc |-> "start", cycleNumber |-> 0, livePeers |-> <<>>, err |-> "nil"]
NewCloser == [pc |-> "idle", calls |-> 0, rets |-> <<>>]
NewServer == [pc |-> "serving", err |-> "none"]
NewWaiter == [pc |-> "idle", calls |-> 0, rets |-> <<>>]
NoAnswer == [path |-> NoString, route |-> NoString, addr |-> "", urlPath |-> NoString,
             status |-> "none", upstream |-> ""]
NoListen == [pc |-> "none"]
NoMembership == [pc |-> "none"]
NoLiveliness == [pc |-> "idle", llv |-> [isNil |-> TRUE, ConcurrentPings |-> 0],
                 curPeers |-> {}, todo |-> {}, inflight |-> {}, probe |-> <<>>,
                 livePeers |-> <<>>, nonLivePeers |-> <<>>, err |-> "none"]

\* the state once Listen(req) has returned and the goroutine of
\* runAndCreateListener has made the livelyProxy of req.PrefixRouter
InitState(req, call, members) ==
    /\ proxyAddresses = req.ProxyAddresses
    /\ prefixRouter = req.PrefixRouter
    /\ longestPrefixFirst \in { SortSlice(order) : order \in KeyOrders(req.PrefixRouter) }
    /\ liveAddresses = <<>>
    /\ next = <<>>
    /\ mu = "free"
    /\ loop = [r \in DOMAIN req.PrefixRouter |-> NewLoop]
    /\ disp = [d \in Dispatchers |-> IdleDispatcher]
    /\ sel = [r \in DOMAIN req.PrefixRouter |-> <<>>]
    /\ nDispatch = 0
    /\ unreachable = {}
    /\ closer = [c \in Closers |-> NewCloser]
    /\ closeOnce = [done |-> FALSE, m |-> "free"]
    /\ listenerCloses = 0
    /\ server = NewServer
    /\ waiter = [w \in Waiters |-> NewWaiter]
    /\ resp = NoAnswer
    /\ ll = NoLiveliness
    /\ listen = call
    /\ membership = members

InitRequest(req) == InitState(req, NoListen, NoMembership)

InitWith(pr) ==
    InitRequest([isNil |-> FALSE, ProxyAddresses |-> <<>>, PrefixRouter |-> pr])

Init == InitWith(DefaultRouter)

----------------------------------------------------------------------------
(* lp.mu *)

\* goroutine t takes the mutex when no goroutine holds it
LockNoExclusion(t) == mu' = "held"
Lock(t) == mu = "free" /\ mu' = "held"

Unlock == mu' = "free"

----------------------------------------------------------------------------
(* The cycle loop of one route: the goroutine of run, and lp.cycle *)

\* run returns feedbackChanMap as it made it: no channel is ever stored in
\* it, so the goroutine of runAndCreateListener that ranges over it starts
\* no consumer.  The value is the set of routes whose channel has a consumer.
FeedbackChanMapAllRoutes == Routes
feedbackChanMap == {}

\* a probe round that may return any backend of the table, of whatever route
LivelinessResultsOfAnyRoute(r) == { <<b>> : b \in Backends }

\* primary.Liveliness: the secondaries of route r that answered the probe,
\* in the order their results arrived.  A backend that is unreachable never
\* answers; any other backend answers or fails in transport.
LivelinessResults(r) ==
    LET answering == { i \in 1..Len(prefixRouter[r]) :
                          prefixRouter[r][i] \notin unreachable }
    IN  UNION { { [k \in 1..Cardinality(live) |-> prefixRouter[r][order[k]]] :
                    order \in { o \in [1..Cardinality(live) -> live] :
                                  \A i, j \in 1..Cardinality(live) :
                                      o[i] = o[j] => i = j } } :
                live \in SUBSET answering }

\* the error primary.Liveliness returns, which lp.cycle returns unchanged: it
\* is nil on every path, also when probes failed
LivelinessError == "nil"

\* for { cycleNumber += 1; livePeers, ... := lp.cycle(route, primary) up to the
\* return of primary.Liveliness (the uint64 counter is capped at MaxCycles)
CycleProbe(r) ==
    /\ loop[r].pc = "start"
    /\ \E live \in LivelinessResults(r) :
          loop' = [loop EXCEPT ![r].pc = "lock", ![r].livePeers = live,
                               ![r].err = LivelinessError,
                               ![r].cycleNumber =
                                   IF @ < MaxCycles THEN @ + 1 ELSE @]
    /\ UNCHANGED <<prefixRouter, longestPrefixFirst, liveAddresses, next, mu, disp,
                   sel, nDispatch, unreachable, closer, closeOnce, listenerCloses,
                   proxyAddresses, server, waiter, ll, resp,
                   listen, membership>>

\* the value cycle stores in lp.next[route]
KeepCursor(r) == MapGet(next, r, 0)
ResetCursor(r) == 0

\* lp.mu.Lock(); ...; lp.next[route] = 0
CycleReset(r) ==
    /\ loop[r].pc = "lock"
    /\ Lock(r)
    /\ next' = MapPut(next, r, ResetCursor(r))
    /\ loop' = [loop EXCEPT ![r].pc = "publish"]
    /\ UNCHANGED <<prefixRouter, longestPrefixFirst, liveAddresses, disp,
                   sel, nDispatch, unreachable, closer, closeOnce, listenerCloses,
                   proxyAddresses, server, waiter, ll, resp,
                   listen, membership>>

\* a send that never waits for a receiver, as on a buffered channel
FeedbackSendBuffered(r) == "start"
\* feedbackChan <- &cycleFeedback{...} on the unbuffered channel of route r:
\* the loop goes on to its sleep and the next iteration when a consumer takes
\* the value, and stays in the send while there is none
FeedbackSend(r) == IF r \in feedbackChanMap THEN "start" ELSE "send"

\* lp.liveAddresses[route] = shuffledAddresses, the deferred Unlock and the
\* return to run, which sends the feedback on its unbuffered channel: with a
\* consumer the loop sleeps and iterates, without one it stays in the send.
CyclePublish(r) ==
    /\ loop[r].pc = "publish"
    /\ \E shuffledAddresses \in Shuffles(loop[r].livePeers) :
          liveAddresses' = MapPut(liveAddresses, r, shuffledAddresses)
    /\ Unlock
    /\ sel' = [sel EXCEPT ![r] = <<>>]
    /\ loop' = [loop EXCEPT ![r].pc = FeedbackSend(r)]
    /\ UNCHANGED <<prefixRouter, longestPrefixFirst, next, disp,
                   nDispatch, unreachable, closer, closeOnce, listenerCloses,
                   proxyAddresses, server, waiter, ll, resp,
                   listen, membership>>

\* a further call of lp.cycle for route r (SpecLP only)
CycleAgain(r) ==
    /\ loop[r].pc = "send"
    /\ loop[r].cycleNumber < MaxCycles
    /\ loop' = [loop EXCEPT ![r].pc = "start"]
    /\ UNCHANGED <<prefixRouter, longestPrefixFirst, liveAddresses, next, mu, disp,
                   sel, nDispatch, unreachable, closer, closeOnce, listenerCloses,
                   proxyAddresses, server, waiter, ll, resp,
                   listen, membership>>

\* a backend becomes transport-unreachable, and stays so
BecomeUnreachable(b) ==
    /\ b \notin unreachable
    /\ Cardinality(unreachable) < MaxUnreachable
    /\ unreachable' = unreachable \cup {b}
    /\ UNCHANGED <<prefixRouter, longestPrefixFirst, liveAddresses, next, mu, loop,
                   disp, sel, nDispatch, closer, closeOnce, listenerCloses,
                   proxyAddresses, server, waiter, ll, resp,
                   listen, membership>>

\* how many times the cycles of route r have stored a list
ListVersion(r) ==
    IF r \notin Routes THEN 0
    ELSE IF loop[r].pc \in {"start", "send"} THEN loop[r].cycleNumber
    ELSE loop[r].cycleNumber - 1
\* how many times the cycles of route r have reset the cursor
CursorVersion(r) ==
    IF r \notin Routes THEN 0
    ELSE IF loop[r].pc \in {"start", "send", "publish"} THEN loop[r].cycleNumber
    ELSE loop[r].cycleNumber - 1

----------------------------------------------------------------------------
(* The dispatcher: ServeHTTP and roundRobinedAddress *)

\* the first entry that the path starts with, or that starts with the path
RECURSIVE MatchFromEitherWay(_, _, _)
MatchFromEitherWay(prefixes, path, i) ==
    IF i > Len(prefixes) THEN NoString
    ELSE IF HasPrefix(path, prefixes[i]) \/ HasPrefix(prefixes[i], path)
         THEN prefixes[i]
    ELSE MatchFromEitherWay(prefixes, path, i + 1)

\* the loop over longestPrefixFirst: the first prefix the path starts with
RECURSIVE MatchFrom(_, _, _)
MatchFrom(prefixes, path, i) ==
    IF i > Len(prefixes) THEN NoString
    ELSE IF HasPrefix(path, prefixes[i]) THEN prefixes[i]
    ELSE MatchFrom(prefixes, path, i + 1)

MatchedRoute(path) == MatchFrom(longestPrefixFirst, path, 1)

\* a request arrives: the prefix match, the call of roundRobinedAddress and
\* its lp.mu.Lock()
Serve(d, path) ==
    /\ disp[d].pc = "idle"
    /\ nDispatch < MaxDispatch
    /\ nDispatch' = nDispatch + 1
    /\ Lock(d)
    /\ disp' = [disp EXCEPT ![d] = [IdleDispatcher EXCEPT
                    !.pc = "rrRead", !.path = path, !.route = MatchedRoute(path)]]
    /\ UNCHANGED <<prefixRouter, longestPrefixFirst, liveAddresses, next, loop,
                   sel, unreachable, closer, closeOnce, listenerCloses,
                   proxyAddresses, server, waiter, ll, resp,
                   listen, membership>>

\* liveAddresses := lp.liveAddresses[route]; if len(liveAddresses) == 0
\* { return "" }, with the deferred Unlock
RRRead(d) ==
    /\ disp[d].pc = "rrRead"
    /\ LET list == MapGet(liveAddresses, disp[d].route, <<>>)
       IN  IF Len(list) = 0
           THEN /\ disp' = [disp EXCEPT ![d] = IdleDispatcher]
                /\ Unlock
           ELSE /\ disp' = [disp EXCEPT ![d].pc = "rrWrap", ![d].list = list,
                                        ![d].ver = ListVersion(disp[d].route)]
                /\ UNCHANGED mu
    /\ UNCHANGED <<prefixRouter, longestPrefixFirst, liveAddresses, next, loop,
                   sel, nDispatch, unreachable, closer, closeOnce, listenerCloses,
                   proxyAddresses, server, waiter, ll,
                   listen, membership>>

\* the cursor after the bounds check of roundRobinedAddress
UncheckedCursor(cursor, length) == cursor
WrappedCursor(cursor, length) == IF cursor >= length THEN 0 ELSE cursor

\* if lp.next[route] >= len(liveAddresses) { lp.next[route] = 0 }
RRWrap(d) ==
    /\ disp[d].pc = "rrWrap"
    /\ LET cursor == MapGet(next, disp[d].route, 0)
           wrapped == WrappedCursor(cursor, Len(disp[d].list))
       IN  next' = IF wrapped = cursor THEN next
                   ELSE MapPut(next, disp[d].route, wrapped)
    /\ disp' = [disp EXCEPT ![d].pc = "rrPick"]
    /\ UNCHANGED <<prefixRouter, longestPrefixFirst, liveAddresses, mu, loop,
                   sel, nDispatch, unreachable, closer, closeOnce, listenerCloses,
                   proxyAddresses, server, waiter, ll, resp,
                   listen, membership>>

\* indexing a slice: out of range is a run-time panic
Index(list, i) == IF i < Len(list) THEN list[i + 1] ELSE "panic"

\* addr := liveAddresses[lp.next[route]]
RRPick(d) ==
    /\ disp[d].pc = "rrPick"
    /\ LET cursor == MapGet(next, disp[d].route, 0)
           addr == Index(disp[d].list, cursor)
       IN  /\ disp' = [disp EXCEPT ![d].pc = "rrInc", ![d].addr = addr]
           /\ sel' = [sel EXCEPT ![disp[d].route] =
                          Append(@, [idx |-> cursor, addr |-> addr,
                                     ver |-> disp[d].ver,
                                     cursorVer |-> CursorVersion(disp[d].route)])]
    /\ UNCHANGED <<prefixRouter, longestPrefixFirst, liveAddresses, next, mu, loop,
                   nDispatch, unreachable, closer, closeOnce, listenerCloses,
                   proxyAddresses, server, waiter, ll, resp,
                   listen, membership>>

\* the cursor after a selection
NoAdvance(cursor) == cursor
Advance(cursor) == cursor + 1

\* lp.next[route] += 1, the deferred Unlock and the return of addr
RRInc(d) ==
    /\ disp[d].pc = "rrInc"
    /\ next' = MapPut(next, disp[d].route, Advance(MapGet(next, disp[d].route, 0)))
    /\ Unlock
    /\ disp' = [disp EXCEPT ![d] = IdleDispatcher]
    /\ UNCHANGED <<prefixRouter, longestPrefixFirst, liveAddresses, loop,
                   sel, nDispatch, unreachable, closer, closeOnce, listenerCloses,
                   proxyAddresses, server, waiter, ll,
                   listen, membership>>

----------------------------------------------------------------------------
(* ServeHTTP after roundRobinedAddress has returned *)

\* strings.TrimPrefix
TrimPrefix(s, prefix) ==
    IF HasPrefix(s, prefix) THEN SubSeq(s, Len(prefix) + 1, Len(s)) ELSE s

\* r.URL.Path = strings.TrimPrefix(r.URL.Path, matchedRoute);
\* if !strings.HasPrefix(r.URL.Path, "/") { r.URL.Path = "/" + r.URL.Path }
TrimmedOnly(path, matchedRoute) == TrimPrefix(path, matchedRoute)
RewrittenPath(path, matchedRoute) ==
    LET trimmed == TrimPrefix(path, matchedRoute)
    IN  IF HasPrefix(trimmed, Root) THEN trimmed ELSE Root \o trimmed

\* httputil.NewSingleHostReverseProxy(parsedURL).ServeHTTP(w, r): url.Parse
\* accepts the empty address, and the round trip to a target without scheme
\* and host fails, which the reverse proxy answers with 502 Bad Gateway; the
\* round trip to a backend reaches it, and its response is passed on, or fails
\* in transport, which gives 502 as well
ReverseProxy(proxyAddr) ==
    { [status |-> "502", upstream |-> ""] } \cup
    (IF proxyAddr = "" \/ proxyAddr \in unreachable THEN {}
     ELSE { [status |-> "upstream", upstream |-> proxyAddr] })

\* what ServeHTTP does with the request of d once roundRobinedAddress has
\* returned proxyAddr
Answer(d, proxyAddr) ==
    \E out \in ReverseProxy(proxyAddr) :
        resp' = [path |-> disp[d].path, route |-> disp[d].route,
                 addr |-> proxyAddr,
                 urlPath |-> RewrittenPath(disp[d].path, disp[d].route),
                 status |-> out.status, upstream |-> out.upstream]

----------------------------------------------------------------------------
(* package lively: Peer.ping and Peer.Liveliness *)

\* p.Peers of the primary: the secondaries by ID, with their addresses
PrimaryPeers == [id \in {"s1", "s2", "s3"} |->
                    [ID |-> id, Addr |-> CASE id = "s1" -> "A" [] id = "s2" -> "B"
                                           [] OTHER -> "C"]]

\* the *LivelyRequest a caller passes: nil, or a value of ConcurrentPings
LivelyRequests ==
    { [isNil |-> TRUE, ConcurrentPings |-> 0] } \cup
    { [isNil |-> FALSE, ConcurrentPings |-> n] : n \in (0 - 1)..2 }

\* &lively.LivelyRequest{}, the request of lp.cycle
CycleRequest == [isNil |-> FALSE, ConcurrentPings |-> 0]

\* concurrentPings := 5; if llv != nil && llv.ConcurrentPings > 0 {
\* concurrentPings = llv.ConcurrentPings }
DefaultConcurrentPings == 5
PoolSizeDefault(llv) == DefaultConcurrentPings
PoolSize(llv) ==
    IF ~llv.isNil /\ llv.ConcurrentPings > 0 THEN llv.ConcurrentPings
    ELSE DefaultConcurrentPings

\* what the HTTP exchange of one probe may come to: no response (Do fails), or
\* a response with a status and a body, which is a Ping, is not a Ping, or
\* breaks while it is read
Statuses == {200, 307, 404, 500}
NoOutcome == [kind |-> "none", status |-> 0, body |-> "none"]
ProbeOutcomes ==
    { [kind |-> "noResponse", status |-> 0, body |-> "none"] } \cup
    { [kind |-> "response", status |-> 200, body |-> b] :
         b \in {"ping", "garbage", "broken"} } \cup
    { [kind |-> "response", status |-> st, body |-> "garbage"] :
         st \in Statuses \ {200} }

\* otils.StatusOK
StatusOK(code) == code >= 200 /\ code <= 299

NilPing == [isNil |-> TRUE, PeerID |-> "", Clock |-> 0]
\* blankPing, and the value of new(Ping)
BlankPing == [isNil |-> FALSE, PeerID |-> "", Clock |-> 0]
\* the Ping a peer answers with
PingOf(id) == [isNil |-> FALSE, PeerID |-> id, Clock |-> 1]

\* the result of ping for a response whose status is not 2xx
NonOKIsError(out) == [ping |-> NilPing, err |-> "errStatus", read |-> FALSE]
NonOK(out) == [ping |-> BlankPing, err |-> "nil", read |-> FALSE]

\* how many times ping closes the body of the response it got
ClosesWhenOK(out) == IF StatusOK(out.status) THEN 1 ELSE 0
BodyCloses(out) == 1

\* e.ping(other): the Ping and the error it returns, whether it read the body
\* to its end, and how many times it closed the body
PingResult(other, out) ==
    IF out.kind = "noResponse"
    THEN [ping |-> NilPing, err |-> "errDo", read |-> FALSE, closes |-> 0]
    ELSE LET r == IF ~StatusOK(out.status) THEN NonOK(out)
                  ELSE IF out.body = "broken"
                       THEN [ping |-> NilPing, err |-> "errRead", read |-> FALSE]
                  ELSE IF out.body = "ping"
                       THEN [ping |-> PingOf(other.ID), err |-> "nil", read |-> TRUE]
                  ELSE [ping |-> BlankPing, err |-> "nil", read |-> TRUE]
         IN  [ping |-> r.ping, err |-> r.err, read |-> r.read,
              closes |-> BodyCloses(out)]

\* the state of the running proxy, which package lively and Listen do not touch
frontenderVars == <<prefixRouter, longestPrefixFirst, liveAddresses, next, mu, loop,
                    disp, sel, nDispatch, unreachable, closer, closeOnce,
                    listenerCloses, proxyAddresses, server, waiter, resp>>

\* p.Liveliness(llv) up to semalim.Run: the snapshot of p.Peers under RLock and
\* the jobs, one per snapshotted peer
Liveliness(llv) ==
    /\ ll.pc = "idle"
    /\ ll' = [pc |-> "run", llv |-> llv,
              curPeers |-> DOMAIN PrimaryPeers, todo |-> DOMAIN PrimaryPeers,
              inflight |-> {},
              probe |-> [id \in DOMAIN PrimaryPeers |->
                            [out |-> NoOutcome, read |-> FALSE, closes |-> 0]],
              livePeers |-> <<>>, nonLivePeers |-> <<>>, err |-> "none"]
    /\ UNCHANGED <<frontenderVars, listen, membership>>

\* semalim.Run takes the next job off jobsBench and starts its Do, when fewer
\* than concurrentPings jobs are running
PingStart(id) ==
    /\ ll.pc = "run"
    /\ id \in ll.todo
    /\ Cardinality(ll.inflight) < PoolSize(ll.llv)
    /\ ll' = [ll EXCEPT !.todo = @ \ {id}, !.inflight = @ \cup {id}]
    /\ UNCHANGED <<frontenderVars, listen, membership>>

\* the Do of one job returns, and the loop over resChan files its result:
\* live when err == nil && pping != nil
PingDone(id, out) ==
    /\ ll.pc = "run"
    /\ id \in ll.inflight
    /\ LET res == PingResult(PrimaryPeers[id], out)
           liveliness == [PeerID |-> id, Ping |-> res.ping, Err |-> res.err,
                          Addr |-> PrimaryPeers[id].Addr]
           live == res.err = "nil" /\ ~res.ping.isNil
       IN  ll' = [ll EXCEPT
                     !.inflight = @ \ {id},
                     !.probe[id] = [out |-> out, read |-> res.read,
                                    closes |-> res.closes],
                     !.livePeers = IF live THEN Append(@, liveliness) ELSE @,
                     !.nonLivePeers = IF live THEN @ ELSE Append(@, liveliness)]
    /\ UNCHANGED <<frontenderVars, listen, membership>>

\* whether resChan is closed: semalim.Run closes it when jobsBench is closed
\* and every job it started has delivered its result
JobsBenchClosed == ll.todo = {}
ResChanClosed == ll.todo = {} /\ ll.inflight = {}

\* the loop over resChan ends; return livePeers, nonLivePeers, nil
LivelinessReturn ==
    /\ ll.pc = "run"
    /\ ResChanClosed
    /\ ll' = [ll EXCEPT !.pc = "returned", !.err = LivelinessError]
    /\ UNCHANGED <<frontenderVars, listen, membership>>

----------------------------------------------------------------------------
(* Request.Validate, Request.SynthesizeDomains and Listen *)

\* strings.TrimSpace on a sequence of characters
RECURSIVE TrimLeft(_)
TrimLeft(s) == IF s # <<>> /\ Head(s) = " " THEN TrimLeft(Tail(s)) ELSE s
RECURSIVE TrimRight(_)
TrimRight(s) ==
    IF s # <<>> /\ s[Len(s)] = " " THEN TrimRight(SubSeq(s, 1, Len(s) - 1)) ELSE s
TrimSpace(s) == TrimRight(TrimLeft(s))

\* otils.FirstNonEmptyString: the first argument that is not blank, or ""
RECURSIVE FirstNonEmptyString(_)
FirstNonEmptyString(args) ==
    IF args = <<>> THEN NoString
    ELSE IF TrimSpace(Head(args)) # NoString THEN Head(args)
    ELSE FirstNonEmptyString(Tail(args))

\* req.needsDomains(): req.HTTP1 == false
NeedsDomains(req) == ~req.HTTP1

\* req.Validate(): the proxy is looked at first
Validate(req) ==
    IF ~HasAtLeastOneProxy(req) THEN "errEmptyProxyAddress"
    ELSE IF NeedsDomains(req) /\ TrimSpace(FirstNonEmptyString(req.Domains)) = NoString
         THEN "errEmptyDomains"
    ELSE "nil"

Www == <<"w", "w", "w">>
WwwDot == <<"w", "w", "w", ".">>

\* toAdd := []string{domain}; if !req.NoAutoWWW && !strings.HasPrefix(domain,
\* "www") { toAdd = append(toAdd, fmt.Sprintf("www.%s", domain)) }
ToAdd(domain, noAutoWWW) ==
    IF ~noAutoWWW /\ ~HasPrefix(domain, Www)
    THEN <<domain, WwwDot \o domain>>
    ELSE <<domain>>

\* if _, seen := uniqs[curDomain]; seen { continue }; finalList =
\* append(finalList, curDomain): uniqs holds the elements of finalList
AppendAlways(finalList, curDomain) == Append(finalList, curDomain)
AppendUnseen(finalList, curDomain) ==
    IF \E i \in 1..Len(finalList) : finalList[i] = curDomain THEN finalList
    ELSE Append(finalList, curDomain)

RECURSIVE AppendAllUnseen(_, _)
AppendAllUnseen(finalList, toAdd) ==
    IF toAdd = <<>> THEN finalList
    ELSE AppendAllUnseen(AppendUnseen(finalList, Head(toAdd)), Tail(toAdd))

\* the loop of SynthesizeDomains over req.Domains
RECURSIVE SynthesizeFrom(_, _, _)
SynthesizeFrom(domains, noAutoWWW, finalList) ==
    IF domains = <<>> THEN finalList
    ELSE LET domain == TrimSpace(Head(domains))
         IN  SynthesizeFrom(Tail(domains), noAutoWWW,
                 IF domain = NoString THEN finalList
                 ELSE AppendAllUnseen(finalList, ToAdd(domain, noAutoWWW)))

SynthesizeDomains(domains, noAutoWWW) == SynthesizeFrom(domains, noAutoWWW, <<>>)

\* the requests Listen is called with: nil, or any combination of the fields
\* that Validate and SynthesizeDomains look at
DomainUniverse ==
    { NoString, <<" ">>, <<"a">>, <<" ", "a">>, WwwDot \o <<"a">>, Www \o <<"a">> }
DomainLists == UNION { [1..n -> DomainUniverse] : n \in 0..MaxDomains }
NilRequest == [isNil |-> TRUE, HTTP1 |-> FALSE, NoAutoWWW |-> FALSE, Domains |-> <<>>,
               ProxyAddresses |-> <<>>, PrefixRouter |-> <<>>]
Requests ==
    { NilRequest } \cup
    [isNil : {FALSE}, HTTP1 : BOOLEAN, NoAutoWWW : BOOLEAN, Domains : DomainLists,
     ProxyAddresses : { <<>>, <<"">>, <<"", "A">> },
     PrefixRouter : { <<>>, (Root :> <<"">>), (Root :> <<"A">>) }]

NewListen(req) == [pc |-> "call", req |-> req, err |-> "none", madeDomains |-> <<>>,
                   listeners |-> 0, started |-> FALSE, lc |-> FALSE]

\* whether Listen goes on after a step that gave err
GoesOnAnyway(err) == TRUE
GoesOn(err) == err = "nil"

\* if err := req.Validate(); err != nil { return nil, err }
ListenValidate ==
    /\ listen.pc = "call"
    /\ LET err == Validate(listen.req)
       IN  listen' = IF GoesOn(err) THEN [listen EXCEPT !.pc = "validated"]
                     ELSE [listen EXCEPT !.pc = "returned", !.err = err]
    /\ UNCHANGED <<frontenderVars, ll, membership>>

\* madeDomains := req.SynthesizeDomains(); if req.needsDomains() &&
\* len(madeDomains) == 0 { return nil, errEmptyDomains }
ListenSynthesize ==
    /\ listen.pc = "validated"
    /\ LET madeDomains == SynthesizeDomains(listen.req.Domains, listen.req.NoAutoWWW)
           err == IF ~listen.req.isNil /\ NeedsDomains(listen.req)
                      /\ Len(madeDomains) = 0
                  THEN "errEmptyDomains" ELSE "nil"
       IN  listen' = IF GoesOn(err)
                     THEN [listen EXCEPT !.pc = "synthesized",
                                         !.madeDomains = madeDomains]
                     ELSE [listen EXCEPT !.pc = "returned", !.err = err,
                                         !.madeDomains = madeDomains]
    /\ UNCHANGED <<frontenderVars, ll, membership>>

\* the listener: of req.DomainsListener or autocert.NewListener, or of
\* net.Listen in HTTP1 mode, which may fail; then runAndCreateListener, which
\* starts the redirector and the goroutine of the server and returns lc, nil
ListenStart ==
    /\ listen.pc = "synthesized"
    /\ \E err \in {"nil"} \cup (IF listen.req.HTTP1 THEN {"errListen"} ELSE {}) :
          listen' = IF err = "nil"
                    THEN [listen EXCEPT !.pc = "returned", !.err = "nil",
                                        !.listeners = @ + 1, !.started = TRUE,
                                        !.lc = TRUE]
                    ELSE [listen EXCEPT !.pc = "returned", !.err = err]
    /\ UNCHANGED <<frontenderVars, ll, membership>>

----------------------------------------------------------------------------
(* package lively: Peer.AddPeer and the snapshot of Peer.Liveliness *)

\* The peers that callers hand to AddPeer: the ID is a string the code trims.
PeerIDs == { NoString, <<" ">>, <<"a">>, <<" ", "a">>, <<"b">> }
Others == [ID : PeerIDs, Addr : {"A", "B"}]
\* the two peers of the concurrent callers: one key, two values
RacingOthers == { [ID |-> <<"a">>, Addr |-> "A"], [ID |-> <<" ", "a">>, Addr |-> "B"] }

Callers == {"c1", "c2"}

IdleCaller == [pc |-> "idle", other |-> [ID |-> NoString, Addr |-> "A"],
               err |-> "none", before |-> <<>>]

\* The membership of one primary: p.Peers (nil and the empty map are both the
\* empty function), the number of holders of p.mu.RLock, the AddPeer calls,
\* and the goroutine that takes the snapshot.  raced: a write has overlapped
\* another access of p.Peers; fault: the runtime has stopped the program on
\* detecting it.
NewMembership == [pc |-> "run", Peers |-> <<>>, readers |-> 0,
                  callers |-> [c \in Callers |-> IdleCaller],
                  snap |-> [pc |-> "idle", curPeers |-> <<>>],
                  raced |-> FALSE, fault |-> FALSE]

OtherIDUntrimmed(other) == other.ID
\* otherID := strings.TrimSpace(other.ID)
OtherID(other) == TrimSpace(other.ID)

Writing(c) == membership.callers[c].pc = "writing"
Ranging == membership.snap.pc = "ranging"

\* What the program can do when an access of the map begins while another one
\* that conflicts with it is in progress: go on, or be stopped by the runtime
\* ("fatal error: concurrent map writes").
FaultOutcomes(conflict) == IF conflict THEN BOOLEAN ELSE {FALSE}
\* The contents of the map after a write: the write's own result, or, once a
\* write has raced, also the map without it.
StoreOutcomes(c) ==
    LET o == membership.callers[c].other
    IN  {MapPut(membership.Peers, OtherID(o), o)}
            \cup (IF membership.raced THEN {membership.Peers} ELSE {})

\* p.AddPeer(other) is called
AddPeerCall(c, other) ==
    /\ membership.pc = "run" /\ ~membership.fault
    /\ membership.callers[c].pc \in {"idle", "returned"}
    /\ membership' = [membership EXCEPT !.callers[c] =
                          [pc |-> "check", other |-> other, err |-> "none",
                           before |-> membership.Peers]]
    /\ UNCHANGED <<frontenderVars, ll, listen>>

\* if otherID == "" { return errBlankPeerID }
AddPeerCheck(c) ==
    /\ membership.pc = "run" /\ ~membership.fault
    /\ membership.callers[c].pc = "check"
    /\ membership' =
          IF OtherID(membership.callers[c].other) = NoString
          THEN [membership EXCEPT !.callers[c].pc = "returned",
                                  !.callers[c].err = "errBlankPeerID"]
          ELSE [membership EXCEPT !.callers[c].pc = "rlock"]
    /\ UNCHANGED <<frontenderVars, ll, listen>>

\* p.mu.RLock(): a shared lock, which any number of goroutines hold together.
\* Nothing in the model takes p.mu.Lock, so the call never blocks.
AddPeerRLock(c) ==
    /\ membership.pc = "run" /\ ~membership.fault
    /\ membership.callers[c].pc = "rlock"
    /\ membership' = [membership EXCEPT !.callers[c].pc = "locked",
                                        !.readers = @ + 1]
    /\ UNCHANGED <<frontenderVars, ll, listen>>

\* the write of p.Peers begins (make if nil, then the assignment)
AddPeerStore(c) ==
    /\ membership.pc = "run" /\ ~membership.fault
    /\ membership.callers[c].pc = "locked"
    /\ LET conflict == Ranging \/ \E c2 \in Callers \ {c} : Writing(c2)
       IN  \E f \in FaultOutcomes(conflict) :
               membership' = [membership EXCEPT !.callers[c].pc = "writing",
                                                !.raced = @ \/ conflict,
                                                !.fault = f]
    /\ UNCHANGED <<frontenderVars, ll, listen>>

\* the write of p.Peers ends: p.Peers[otherID] = other
AddPeerStored(c) ==
    /\ membership.pc = "run" /\ ~membership.fault
    /\ Writing(c)
    /\ \E peers \in StoreOutcomes(c) :
           membership' = [membership EXCEPT !.callers[c].pc = "written",
                                            !.Peers = peers]
    /\ UNCHANGED <<frontenderVars, ll, listen>>

\* p.mu.RUnlock(); return nil
AddPeerRUnlock(c) ==
    /\ membership.pc = "run" /\ ~membership.fault
    /\ membership.callers[c].pc = "written"
    /\ membership' = [membership EXCEPT !.callers[c].pc = "returned",
                                        !.callers[c].err = "nil",
                                        !.readers = @ - 1]
    /\ UNCHANGED <<frontenderVars, ll, listen>>

\* Liveliness: p.mu.RLock()
SnapshotRLock ==
    /\ membership.pc = "run" /\ ~membership.fault
    /\ membership.snap.pc = "idle"
    /\ membership' = [membership EXCEPT !.snap.pc = "locked", !.readers = @ + 1]
    /\ UNCHANGED <<frontenderVars, ll, listen>>

\* the range over p.Peers begins
SnapshotRange ==
    /\ membership.pc = "run" /\ ~membership.fault
    /\ membership.snap.pc = "locked"
    /\ LET conflict == \E c \in Callers : Writing(c)
       IN  \E f \in FaultOutcomes(conflict) :
               membership' = [membership EXCEPT !.snap.pc = "ranging",
                                                !.raced = @ \/ conflict,
                                                !.fault = f]
    /\ UNCHANGED <<frontenderVars, ll, listen>>

\* the range ends: curPeers holds what it read
SnapshotRanged ==
    /\ membership.pc = "run" /\ ~membership.fault
    /\ Ranging
    /\ membership' = [membership EXCEPT !.snap.pc = "ranged",
                                        !.snap.curPeers = membership.Peers]
    /\ UNCHANGED <<frontenderVars, ll, listen>>

\* p.mu.RUnlock()
SnapshotRUnlock ==
    /\ membership.pc = "run" /\ ~membership.fault
    /\ membership.snap.pc = "ranged"
    /\ membership' = [membership EXCEPT !.snap.pc = "idle", !.readers = @ - 1]
    /\ UNCHANGED <<frontenderVars, ll, listen>>

----------------------------------------------------------------------------
(* ListenConfirmation.Close: closeFn and its sync.Once *)

\* what listener.Close() may return
ListenerCloseResults == {"nil", "closeErr"}

\* whether Do finds the function already run
AlwaysRun == FALSE
OnceDone == closeOnce.done

\* lc.Close(): err := errAlreadyClosed; closeOnce.Do(...), whose fast path
\* returns when done is set, so that closeFn returns err
Close(c) ==
    /\ closer[c].pc = "idle"
    /\ closer[c].calls < MaxCloseCalls
    /\ closer' = IF OnceDone
                 THEN [closer EXCEPT ![c].calls = @ + 1,
                                     ![c].rets = Append(@, "errAlreadyClosed")]
                 ELSE [closer EXCEPT ![c].calls = @ + 1, ![c].pc = "onceLock"]
    /\ UNCHANGED <<prefixRouter, longestPrefixFirst, liveAddresses, next, mu, loop,
                   disp, sel, nDispatch, unreachable, closeOnce, listenerCloses,
                   proxyAddresses, server, waiter, ll, resp,
                   listen, membership>>

\* Once.Do, slow path: o.m.Lock()
OnceLock(c) ==
    /\ closer[c].pc = "onceLock"
    /\ closeOnce.m = "free"
    /\ closeOnce' = [closeOnce EXCEPT !.m = c]
    /\ closer' = [closer EXCEPT ![c].pc = "onceRun"]
    /\ UNCHANGED <<prefixRouter, longestPrefixFirst, liveAddresses, next, mu, loop,
                   disp, sel, nDispatch, unreachable, listenerCloses,
                   proxyAddresses, server, waiter, ll, resp,
                   listen, membership>>

\* Once.Do, slow path under o.m: if done is still unset, run
\* err = listener.Close() and set done; unlock; closeFn returns err
OnceRun(c) ==
    /\ closer[c].pc = "onceRun"
    /\ IF OnceDone
       THEN /\ closer' = [closer EXCEPT ![c].pc = "idle",
                                        ![c].rets = Append(@, "errAlreadyClosed")]
            /\ closeOnce' = [closeOnce EXCEPT !.m = "free"]
            /\ UNCHANGED listenerCloses
       ELSE /\ \E res \in ListenerCloseResults :
                  closer' = [closer EXCEPT ![c].pc = "idle",
                                           ![c].rets = Append(@, res)]
            /\ closeOnce' = [done |-> TRUE, m |-> "free"]
            /\ listenerCloses' = listenerCloses + 1
    /\ UNCHANGED <<prefixRouter, longestPrefixFirst, liveAddresses, next, mu, loop,
                   disp, sel, nDispatch, unreachable,
                   proxyAddresses, server, waiter, ll, resp,
                   listen, membership>>

----------------------------------------------------------------------------
(* The dispatch server and ListenConfirmation.Wait: errsChan *)

\* what http.Serve returns: it returns when Accept fails, which it does once
\* the listener is closed, or when the listener fails by itself
ServeErrors ==
    {"errAccept"} \cup (IF listenerCloses > 0 THEN {"errListenerClosed"} ELSE {})

\* errsChan <- http.Serve(listener, lproxy): http.Serve returns and the
\* goroutine starts the send on the unbuffered errsChan
ServeReturns ==
    /\ server.pc = "serving"
    /\ \E err \in ServeErrors : server' = [pc |-> "send", err |-> err]
    /\ UNCHANGED <<prefixRouter, longestPrefixFirst, liveAddresses, next, mu, loop,
                   disp, sel, nDispatch, unreachable, closer, closeOnce,
                   listenerCloses, proxyAddresses, waiter, resp, ll,
                   listen, membership>>

\* lc.Wait(): return <-lc.errsChan, up to the receive
Wait(w) ==
    /\ waiter[w].pc = "idle"
    /\ waiter[w].calls < MaxWaitCalls
    /\ waiter' = [waiter EXCEPT ![w].pc = "recv", ![w].calls = @ + 1]
    /\ UNCHANGED <<prefixRouter, longestPrefixFirst, liveAddresses, next, mu, loop,
                   disp, sel, nDispatch, unreachable, closer, closeOnce,
                   listenerCloses, proxyAddresses, server, resp, ll,
                   listen, membership>>

\* whether the goroutine of the server closes errsChan when it returns
NoDeferredClose == FALSE
DeferredClose == TRUE

\* the send of the server meets the receive of one Wait, which returns the
\* value; the goroutine of the server returns and runs defer close(errsChan)
WaitReceive(w) ==
    /\ waiter[w].pc = "recv"
    /\ server.pc = "send"
    /\ waiter' = [waiter EXCEPT ![w].pc = "idle", ![w].rets = Append(@, server.err)]
    /\ server' = [server EXCEPT !.pc = IF DeferredClose THEN "closed" ELSE "returned"]
    /\ UNCHANGED <<prefixRouter, longestPrefixFirst, liveAddresses, next, mu, loop,
                   disp, sel, nDispatch, unreachable, closer, closeOnce,
                   listenerCloses, proxyAddresses, resp, ll,
                   listen, membership>>

\* a receive on the closed errsChan returns the zero value at once
WaitClosed(w) ==
    /\ waiter[w].pc = "recv"
    /\ server.pc = "closed"
    /\ waiter' = [waiter EXCEPT ![w].pc = "idle", ![w].rets = Append(@, "nil")]
    /\ UNCHANGED <<prefixRouter, longestPrefixFirst, liveAddresses, next, mu, loop,
                   disp, sel, nDispatch, unreachable, closer, closeOnce,
                   listenerCloses, proxyAddresses, server, resp, ll,
                   listen, membership>>

----------------------------------------------------------------------------
(* The specifications *)

LoopStep(r) ==
    CycleProbe(r) \/ CycleReset(r) \/ CyclePublish(r)

\* a step of a request as far as the cache is concerned: what ServeHTTP does
\* with the address it gets is not recorded
DispatchStep(d) ==
    \/ \E path \in Paths : Serve(d, path)
    \/ RRRead(d) /\ UNCHANGED resp
    \/ RRWrap(d) \/ RRPick(d)
    \/ RRInc(d) /\ UNCHANGED resp

\* a step of a request: ServeHTTP as a whole
ServeEmpty(d) ==
    RRRead(d) /\ (IF disp'[d].pc = "idle" THEN Answer(d, "") ELSE UNCHANGED resp)

ServeStep(d, paths) ==
    \/ \E path \in paths : Serve(d, path)
    \/ ServeEmpty(d)
    \/ RRWrap(d) \/ RRPick(d)
    \/ RRInc(d) /\ Answer(d, disp[d].addr)

WaitStep(w) == Wait(w) \/ WaitReceive(w) \/ WaitClosed(w)

CloseStep(c) == Close(c) \/ OnceLock(c) \/ OnceRun(c)

\* the proxy, its cycle loops, the requests and the callers of Close
Next ==
    \/ \E r \in Routes : LoopStep(r)
    \/ \E d \in Dispatchers : DispatchStep(d)
    \/ \E c \in Closers : CloseStep(c)
    \/ \E b \in Backends : BecomeUnreachable(b)

Spec == Init /\ [][Next]_vars

\* The live-address cache under any use of its two methods: roundRobinedAddress
\* called by concurrent requests, and lp.cycle called again and again for each
\* route.  Every run of Spec without Close and unreachable backends is a run of
\* SpecLP.
NextLP ==
    \/ \E r \in Routes : LoopStep(r) \/ CycleAgain(r)
    \/ \E d \in Dispatchers : DispatchStep(d)

SpecLP == Init /\ [][NextLP]_vars

\* The cycle loop of a route whose address list names one backend twice: two
\* secondaries with the same address.
TwinRouter == (Root :> <<"A", "A", "B">>)

NextCycle == \E r \in Routes : LoopStep(r) \/ CycleAgain(r)

CycleSpec == InitWith(TwinRouter) /\ [][NextCycle]_vars

\* ServeHTTP on the route table of every request over PrefixUniverse that Listen
\* accepts, before any cycle has published (every live list is still empty).
InitRoute == \E req \in ListenRequests : InitRequest(req)

NextRoute ==
    \E d \in Dispatchers : (\E path \in RoutePaths : Serve(d, path)) \/ ServeEmpty(d)

SpecRoute == InitRoute /\ [][NextRoute]_vars

\* The cycle loops, the callers of Close and the backends, with no request
\* arriving.
NextShutdown ==
    \/ \E r \in Routes : LoopStep(r)
    \/ \E c \in Closers : CloseStep(c)
    \/ \E b \in Backends : BecomeUnreachable(b)

SpecShutdown == Init /\ [][NextShutdown]_vars

\* The same with one goroutine calling Close, under fair scheduling: every
\* goroutine that can take a step eventually takes it, and lp.mu is handed to a
\* goroutine that waits for it (the starvation mode of sync.Mutex).  Nobody is
\* bound to call Close, and no backend is bound to fail.
LiveClosers == {"c1"}

NextLive ==
    \/ \E r \in Routes : LoopStep(r)
    \/ \E c \in LiveClosers : CloseStep(c)
    \/ \E b \in Backends : BecomeUnreachable(b)

LiveSpec ==
    /\ Init
    /\ [][NextLive]_vars
    /\ \A r \in DOMAIN DefaultRouter :
          WF_vars(CycleProbe(r) \/ CyclePublish(r)) /\ SF_vars(CycleReset(r))
    /\ \A c \in LiveClosers : WF_vars(OnceLock(c) \/ OnceRun(c))

\* The requests and the cycle loops of the program: each loop publishes once and
\* then stays in its feedback send.
NextServe ==
    \/ \E r \in Routes : LoopStep(r)
    \/ \E d \in Dispatchers : ServeStep(d, ServePaths)

ServeSpec == Init /\ [][NextServe]_vars

\* One call of Liveliness on a primary with three secondaries, for every
\* request a caller may pass and every outcome of every probe.
NextLively ==
    \/ \E llv \in LivelyRequests : Liveliness(llv)
    \/ \E id \in DOMAIN PrimaryPeers :
          \/ PingStart(id)
          \/ \E out \in ProbeOutcomes : PingDone(id, out)
    \/ LivelinessReturn

LivelySpec == Init /\ [][NextLively]_vars

\* One call of Listen, for every request over the field values above.
InitListen ==
    \E req \in Requests :
        InitState([isNil |-> FALSE, ProxyAddresses |-> <<>>,
                   PrefixRouter |-> DefaultRouter], NewListen(req), NoMembership)

NextListen == ListenValidate \/ ListenSynthesize \/ ListenStart

ListenSpec == InitListen /\ [][NextListen]_vars

\* The dispatch server, the callers of Wait and one caller of Close, under fair
\* scheduling of the receives.  The server is the only sender on errsChan:
\* feedbackChanMap is empty, so no goroutine forwards the error of a cycle.
\* Nobody is bound to call Wait or Close.
NextWait ==
    \/ ServeReturns
    \/ \E w \in Waiters : WaitStep(w)
    \/ \E c \in LiveClosers : CloseStep(c)

WaitSpec ==
    /\ Init
    /\ [][NextWait]_vars
    /\ \A w \in Waiters : WF_vars(WaitReceive(w) \/ WaitClosed(w))
    /\ \A c \in LiveClosers : WF_vars(OnceLock(c) \/ OnceRun(c))


\* The membership of a primary whose Listen-side state is not involved.
InitMembers ==
    InitState([isNil |-> FALSE, ProxyAddresses |-> <<>>,
               PrefixRouter |-> DefaultRouter], NoListen, NewMembership)

AddPeerStep(c) ==
    \/ AddPeerCheck(c)
    \/ AddPeerRLock(c)
    \/ AddPeerStore(c)
    \/ AddPeerStored(c)
    \/ AddPeerRUnlock(c)

SnapshotStep ==
    \/ SnapshotRLock
    \/ SnapshotRange
    \/ SnapshotRanged
    \/ SnapshotRUnlock

\* AddPeer called by one goroutine, one call after the other, with any peer.
NextAddPeer ==
    \/ \E other \in Others : AddPeerCall("c1", other)
    \/ AddPeerStep("c1")

AddPeerSpec == InitMembers /\ [][NextAddPeer]_vars

\* AddPeer called by two goroutines while a third takes the snapshots of
\* Liveliness: every interleaving of their steps.
NextMembers ==
    \/ \E c \in Callers :
          \/ \E other \in RacingOthers : AddPeerCall(c, other)
          \/ AddPeerStep(c)
    \/ SnapshotStep

MemberSpec == InitMembers /\ [][NextMembers]_vars
----------------------------------------------------------------------------
(* Vocabulary of the properties *)

LiveList(r) == MapGet(liveAddresses, r, <<>>)
Cursor(r) == MapGet(next, r, 0)
Range(list) == { list[i] : i \in 1..Len(list) }
Occurrences(list, a) == Cardinality({ i \in 1..Len(list) : list[i] = a })
SelectedAddresses(r, from, to) == [i \in 1..(to - from + 1) |-> sel[r][from + i - 1].addr]
\* cycle k of route r has published its result
Published(r, k) == loop[r].cycleNumber = k /\ loop[r].pc \in {"send", "start"}
\* the results the Close calls have returned so far, as (caller, call number) pairs
ReturnedCalls == { <<c, i>> \in Closers \X (1..(MaxCloseCalls + 1)) : i <= Len(closer[c].rets) }
ClosingCalls == { ci \in ReturnedCalls : closer[ci[1]].rets[ci[2]] # "errAlreadyClosed" }

----------------------------------------------------------------------------
(* C1 *)

\* C1: for every route r and every k >= 1, once cycle k of r has published its
\* result, cycle k+1 of r eventually runs, unless the system is shut down (Close).
CycleLoopKeepsCycling ==
    \A r \in DOMAIN DefaultRouter : \A k \in 1..(MaxCycles - 1) :
        (Published(r, k) /\ listenerCloses = 0)
            ~> (loop[r].cycleNumber = k + 1 \/ listenerCloses > 0)

(* C2 *)

\* C2: if the live list of route r contains backend a and a has become
\* transport-unreachable for good, the live list of r eventually no longer
\* contains a (the part of the claim about later dispatches follows from it).
DeadBackendEvicted ==
    \A r \in DOMAIN DefaultRouter : \A a \in Range(DefaultRouter[r]) :
        (a \in Range(LiveList(r)) /\ a \in unreachable) ~> (a \notin Range(LiveList(r)))

(* C3 *)

\* C3: while the live list of route r (N >= 1 elements) is not replaced, the
\* selections on r go through the list in order, starting at its first element
\* (A,B,C,A,B,C), and any 2N consecutive selections pick each address of the
\* list exactly twice (twice per occurrence in the list).
RoundRobinFairness ==
    \A r \in Routes :
        LET list == LiveList(r)
            N == Len(list)
        IN  N >= 1 =>
              /\ \A i \in 1..Len(sel[r]) : sel[r][i].addr = list[((i - 1) % N) + 1]
              /\ \A from \in 1..Len(sel[r]) :
                    from + 2 * N - 1 <= Len(sel[r]) =>
                       \A a \in Range(list) :
                          Occurrences(SelectedAddresses(r, from, from + 2 * N - 1), a)
                             = 2 * Occurrences(list, a)

\* 2N selections in a row on a list of N = 2 addresses
RoundRobinFairnessWitness ==
    /\ Len(LiveList(Root)) = 2
    /\ Len(sel[Root]) >= 4

(* C4 *)

\* C4: for every request path and every route table, when some configured prefix
\* is a prefix of the path, the prefix ServeHTTP matches is a configured prefix of
\* the path and no configured prefix of the path is longer.
LongestPrefixMatch ==
    \A d \in Dispatchers :
        disp[d].pc = "rrRead" =>
            LET candidates == { p \in Routes : HasPrefix(disp[d].path, p) }
            IN  candidates # {} =>
                  /\ disp[d].route \in candidates
                  /\ \A q \in candidates : Len(q) <= Len(disp[d].route)

\* with prefixes "/", "/fo" and "/foo" configured, "/fox" is matched to "/fo"
LongestPrefixMatchWitness ==
    /\ {Root, Fo, Foo} \subseteq Routes
    /\ \E d \in Dispatchers :
          /\ disp[d].pc = "rrRead"
          /\ disp[d].path = <<"/", "f", "o", "x">>
          /\ disp[d].route = Fo

(* C5 *)

\* C5: a selection reads the list and the cursor of one snapshot: from the read
\* of the list to the advance of the cursor, the list in hand is the stored list,
\* no cycle has replaced the list or reset the cursor in between, and the index
\* used is within the list in hand.
SnapshotConsistent ==
    /\ \A d \in Dispatchers :
          disp[d].pc \in {"rrWrap", "rrPick", "rrInc"} =>
              /\ disp[d].list = LiveList(disp[d].route)
              /\ disp[d].ver = ListVersion(disp[d].route)
              /\ disp[d].ver = CursorVersion(disp[d].route)
              /\ disp[d].pc = "rrPick" => Cursor(disp[d].route) < Len(disp[d].list)
    /\ \A r \in Routes : \A i \in 1..Len(sel[r]) :
          /\ sel[r][i].ver = sel[r][i].cursorVer
          /\ sel[r][i].addr # "panic"

\* a selection on "/" is under way while the second cycle of "/" has its probe
\* result and waits to publish it
SnapshotConsistentWitness ==
    /\ loop[Root].pc = "lock"
    /\ loop[Root].cycleNumber = 2
    /\ \E d \in Dispatchers : disp[d].pc = "rrPick" /\ disp[d].route = Root

(* C6 *)

\* C6, as claimed: for every route whose live list is non-empty, the stored
\* cursor is strictly less than the length of the list.
CursorBelowLength ==
    \A r \in Routes : Len(LiveList(r)) > 0 => Cursor(r) < Len(LiveList(r))

\* C6, amended: for every route whose live list is non-empty, the stored cursor
\* is at most the length of the list (it equals the length after the last
\* element was selected, and is wrapped to 0 by the next selection), and the
\* index a selection uses is strictly less than the length.
CursorAtMostLength ==
    \A r \in Routes :
        Len(LiveList(r)) > 0 =>
            /\ Cursor(r) <= Len(LiveList(r))
            /\ \A i \in 1..Len(sel[r]) : sel[r][i].idx < Len(LiveList(r))

\* the last element of a two-element list has been selected
CursorAtMostLengthWitness ==
    /\ Len(LiveList(Root)) = 2
    /\ Cursor(Root) = 2
    /\ Len(sel[Root]) = 2

(* C7 *)

\* C7: when a cycle of route r has replaced the live list and no selection was
\* made since, the cursor of r is 0; and the first selection after the
\* replacement used index 0 and picked element 0 of the list.
CursorResetOnPublish ==
    \A r \in Routes :
        /\ (loop[r].pc \in {"send", "start"} /\ loop[r].cycleNumber >= 1 /\ sel[r] = <<>>)
              => Cursor(r) = 0
        /\ (sel[r] # <<>> /\ Len(LiveList(r)) > 0) =>
              /\ sel[r][1].idx = 0
              /\ sel[r][1].addr = LiveList(r)[1]

\* the first selection after the second cycle of "/", all earlier requests done
CursorResetOnPublishWitness ==
    /\ loop[Root].cycleNumber = 2
    /\ loop[Root].pc = "send"
    /\ Len(sel[Root]) = 1
    /\ nDispatch >= 3
    /\ sel[Foo] = <<>>

(* C8 *)

\* C8: the selections on route r since the last cycle, in the order they took
\* effect, used the cursor values 0, 1, 2, ... modulo the length of the live list:
\* none is used twice within a round, none is skipped.
SequentialCursor ==
    \A r \in Routes :
        Len(LiveList(r)) > 0 =>
            \A i \in 1..Len(sel[r]) : sel[r][i].idx = (i - 1) % Len(LiveList(r))

\* three selections on a list of two: the cursor has wrapped
SequentialCursorWitness ==
    /\ Len(LiveList(Root)) = 2
    /\ Len(sel[Root]) = 3
    /\ \E d \in Dispatchers : disp[d].pc = "rrInc" /\ disp[d].route = Root

(* C9 *)

\* C9, as claimed: listener.Close() is invoked at most once, exactly once as soon
\* as a Close call has returned; one call performs it and returns nil, every
\* other call returns errAlreadyClosed.
CloseOnceReturnsNil ==
    /\ listenerCloses <= 1
    /\ Cardinality(ClosingCalls) = listenerCloses
    /\ ReturnedCalls # {} => listenerCloses = 1
    /\ \A ci \in ClosingCalls : closer[ci[1]].rets[ci[2]] = "nil"

\* C9, amended: listener.Close() is invoked at most once, exactly once as soon as
\* a Close call has returned; one call performs it and returns what
\* listener.Close() returned (nil when the listener closed without error), every
\* other call returns errAlreadyClosed.
CloseAtMostOnce ==
    /\ listenerCloses <= 1
    /\ Cardinality(ClosingCalls) = listenerCloses
    /\ ReturnedCalls # {} => listenerCloses = 1
    /\ \A ci \in ReturnedCalls :
          closer[ci[1]].rets[ci[2]] \in ListenerCloseResults \cup {"errAlreadyClosed"}

\* both callers have returned from two calls each
CloseAtMostOnceWitness ==
    /\ \A c \in Closers : Len(closer[c].rets) >= 2
    /\ listenerCloses = 1

(* C10 *)

\* C10: after the first Close, every cycle loop eventually stops for good: no
\* probe round is started and no live list is replaced any more.
LoopStopped(r) == loop[r].pc = "send"
LoopsStopAfterClose ==
    \A r \in DOMAIN DefaultRouter : (listenerCloses > 0) ~> [](LoopStopped(r))

\* Close has been performed while a loop has not yet published
LoopsStopAfterCloseWitness ==
    /\ listenerCloses > 0
    /\ \E r \in Routes : loop[r].pc = "start"
    /\ \E r \in Routes : loop[r].pc = "publish"


\* the values the calls of Wait have returned, as <<waiter, call number>>
WaitReturns == { <<w, i>> \in Waiters \X (1..(MaxWaitCalls + 1)) : i <= Len(waiter[w].rets) }

(* C11 (as stated): a Wait call never returns while the dispatch server is
   still serving, and the value every Wait returns after the server has exited
   is the terminal error of the server. *)
WaitYieldsTerminalError ==
    \A wi \in WaitReturns :
        /\ server.pc # "serving"
        /\ waiter[wi[1]].rets[wi[2]] = server.err

(* C11 (amended): no Wait returns while the dispatch server is still serving;
   the terminal error of the server is returned by exactly one Wait, the one
   that receives it, and every other Wait returns nil; once the server has
   exited, every pending Wait eventually returns. *)
WaitBlocksUntilServerExits ==
    /\ [](\A wi \in WaitReturns : server.pc # "serving")
    /\ [](Cardinality({ wi \in WaitReturns :
                          waiter[wi[1]].rets[wi[2]] = server.err })
            = IF WaitReturns = {} THEN 0 ELSE 1)
    /\ [](\A wi \in WaitReturns :
             waiter[wi[1]].rets[wi[2]] \in {server.err, "nil"})
    /\ \A w \in Waiters :
          (waiter[w].pc = "recv" /\ server.pc # "serving") ~> (waiter[w].pc = "idle")

\* one Wait has returned the terminal error of the server and another one nil
WaitBlocksUntilServerExitsWitness ==
    /\ server.pc = "closed"
    /\ waiter["w1"].rets = <<server.err>>
    /\ waiter["w2"].rets = <<"nil">>

(* C12: every error a cycle produces is eventually written to errsChan, the
   channel the dispatch server sends its terminal error on.  The error of a
   cycle is the err field of the feedback the loop of the route sends. *)
CycleProducedError(r) == loop[r].pc = "send" /\ loop[r].err # "nil"
CycleErrorsReachErrsChan ==
    \A r \in DOMAIN DefaultRouter :
        CycleProducedError(r) ~> (\E wi \in WaitReturns :
                                     waiter[wi[1]].rets[wi[2]] = loop[r].err)

\* a request has been answered, and the configured prefixes that are a prefix
\* of its path
Answered == resp.status # "none"
MatchingPrefixes(path) == { r \in Routes : HasPrefix(path, r) }

(* C13: when no configured prefix is a prefix of the request path, no route is
   matched, no backend address is selected, the request reaches no backend and
   the answer is 502 Bad Gateway. *)
NoRouteAnswers502 ==
    (Answered /\ MatchingPrefixes(resp.path) = {}) =>
        /\ resp.route = NoString
        /\ resp.addr = ""
        /\ resp.upstream = ""
        /\ resp.status = "502"

\* a request whose path no prefix of a non-empty route table matches got 502
NoRouteAnswers502Witness ==
    /\ Routes # {}
    /\ Answered
    /\ MatchingPrefixes(resp.path) = {}
    /\ resp.status = "502"

(* C14: when the live list of the matched prefix is empty at selection time, so
   that no address is selected, the answer is 503 Service Unavailable and the
   request reaches no backend. *)
EmptyLiveListAnswers503 ==
    (Answered /\ MatchingPrefixes(resp.path) # {} /\ resp.addr = "") =>
        /\ resp.status = "503"
        /\ resp.upstream = ""

(* C15: the path of a request with matched prefix M is forwarded as the path
   with the leading M removed, with "/" put in front when the remainder does
   not start with "/"; it always begins with "/". *)
PrefixStripped ==
    (Answered /\ MatchingPrefixes(resp.path) # {}) =>
        LET rest == [i \in 1..(Len(resp.path) - Len(resp.route)) |->
                        resp.path[Len(resp.route) + i]]
        IN  /\ resp.urlPath = IF rest # <<>> /\ rest[1] = "/" THEN rest
                              ELSE <<"/">> \o rest
            /\ resp.urlPath[1] = "/"
            /\ (resp.route = Foo /\ resp.path = <<"/", "f", "o", "o", "/", "x">>)
                   => resp.urlPath = <<"/", "x">>
            /\ (resp.route = Foo /\ resp.path = Foo) => resp.urlPath = <<"/">>

\* backend C has received the request for /foo as a request for /
PrefixStrippedWitness ==
    /\ resp.upstream = "C"
    /\ resp.path = Foo
    /\ resp.route = Foo
    /\ resp.urlPath = Root

\* the probes of the call that have completed, and where a secondary is filed
Probed == { id \in ll.curPeers : ll.probe[id].out.kind # "none" }
Filed(list, id) == { i \in 1..Len(list) : list[i].PeerID = id }

(* C16: a probed secondary is filed as live, with a nil error, for every
   outcome that yields a response: with the Ping of the body for a 2xx status
   and a parseable body, with the blank Ping for a 2xx status and an
   unparseable body and for every other status; it is filed as non-live, with
   a non-nil error, exactly when the exchange fails in transport (no response,
   or the connection breaks while the body of a 2xx response is read). *)
ProbeClassified ==
    \A id \in Probed :
        LET out == ll.probe[id].out
            ok == out.status >= 200 /\ out.status < 300
            transportFailure ==
                out.kind = "noResponse" \/ (ok /\ out.body = "broken")
        IN  IF transportFailure
            THEN /\ Filed(ll.livePeers, id) = {}
                 /\ \E i \in Filed(ll.nonLivePeers, id) :
                       ll.nonLivePeers[i].Err # "nil"
            ELSE /\ Filed(ll.nonLivePeers, id) = {}
                 /\ \E i \in Filed(ll.livePeers, id) :
                       /\ ll.livePeers[i].Err = "nil"
                       /\ ll.livePeers[i].Ping =
                              IF ok /\ out.body = "ping"
                              THEN [isNil |-> FALSE, PeerID |-> id, Clock |-> 1]
                              ELSE [isNil |-> FALSE, PeerID |-> "", Clock |-> 0]

\* s1 answered 404, s2 did not answer, s3 answered 200 with its Ping
ProbeClassifiedWitness ==
    /\ ll.pc = "returned"
    /\ ll.probe["s1"].out.status = 404
    /\ ll.probe["s2"].out.kind = "noResponse"
    /\ ll.probe["s3"].out.body = "ping"
    /\ Len(ll.livePeers) = 2
    /\ Len(ll.nonLivePeers) = 1

(* C17: when Liveliness returns, the probe of every secondary of its snapshot
   has completed, the error it returns is nil, and every snapshotted secondary
   is in exactly one place of exactly one of the two lists, under its own ID and
   address. *)
LivelinessComplete ==
    ll.pc = "returned" =>
        /\ ll.err = "nil"
        /\ Probed = ll.curPeers
        /\ Len(ll.livePeers) + Len(ll.nonLivePeers) = Cardinality(ll.curPeers)
        /\ \A id \in ll.curPeers :
              /\ Cardinality(Filed(ll.livePeers, id))
                    + Cardinality(Filed(ll.nonLivePeers, id)) = 1
              /\ \A i \in Filed(ll.livePeers, id) :
                    ll.livePeers[i].Addr = PrimaryPeers[id].Addr
              /\ \A i \in Filed(ll.nonLivePeers, id) :
                    ll.nonLivePeers[i].Addr = PrimaryPeers[id].Addr

\* a call has returned with two probes failed and one secondary live
LivelinessCompleteWitness ==
    /\ ll.pc = "returned"
    /\ Len(ll.nonLivePeers) = 2
    /\ Len(ll.livePeers) = 1
    /\ ll.err = "nil"

(* C18: during a call of Liveliness the number of probes in flight never
   exceeds the pool size, which is the ConcurrentPings of the request when the
   request is not nil and the value is positive, and 5 otherwise; the request of
   the cycle loop gives 5. *)
BoundedProbeParallelism ==
    /\ ll.pc = "run" =>
          Cardinality(ll.inflight) <=
              (IF ~ll.llv.isNil /\ ll.llv.ConcurrentPings > 0
               THEN ll.llv.ConcurrentPings ELSE 5)
    /\ PoolSize(CycleRequest) = 5

\* the pool of two is full and a third probe waits for a place
BoundedProbeParallelismWitness ==
    /\ ll.pc = "run"
    /\ ll.llv.ConcurrentPings = 2
    /\ Cardinality(ll.inflight) = 2
    /\ ll.todo # {}

(* C19: the body of every response a probe receives is closed exactly once,
   whatever the status, and it is closed before Liveliness returns. *)
BodyClosedOnce ==
    /\ \A id \in Probed :
          ll.probe[id].closes =
              IF ll.probe[id].out.kind = "response" THEN 1 ELSE 0
    /\ ll.pc = "returned" =>
          \A id \in ll.curPeers :
              ll.probe[id].out.kind = "response" => ll.probe[id].closes = 1

\* a call has returned after responses with status 200, 307 and 500
BodyClosedOnceWitness ==
    /\ ll.pc = "returned"
    /\ ll.probe["s1"].out.status = 200
    /\ ll.probe["s2"].out.status = 307
    /\ ll.probe["s3"].out.status = 500
    /\ \A id \in ll.curPeers : ll.probe[id].closes = 1

(* C20: when the request has a flat list of proxy addresses and no prefix
   router, the route table has exactly one entry, the prefix "/", whose
   secondaries are the listed addresses, and every request is routed to it. *)
FlatAddressesCatchAll ==
    (DOMAIN prefixRouter = {} /\ proxyAddresses # <<>>) =>
        /\ longestPrefixFirst = <<Root>>
        /\ DOMAIN loop = {Root}
        /\ Answered => resp.route = Root

\* Validate has been run on the request of the Listen call, and what it gave
Validated == listen.pc \in {"validated", "synthesized", "returned"}
ValidateError ==
    IF listen.pc = "returned" /\ listen.err \in {"errEmptyProxyAddress", "errEmptyDomains"}
    THEN listen.err ELSE "nil"

\* a non-empty address in req.ProxyAddresses or in a list of req.PrefixRouter,
\* and a non-blank entry in req.Domains
SomeAddress(req) ==
    /\ ~req.isNil
    /\ \/ \E i \in 1..Len(req.ProxyAddresses) : req.ProxyAddresses[i] # ""
       \/ \E p \in DOMAIN req.PrefixRouter :
             \E i \in 1..Len(req.PrefixRouter[p]) : req.PrefixRouter[p][i] # ""
SomeDomain(req) == \E i \in 1..Len(req.Domains) : TrimSpace(req.Domains[i]) # NoString

(* C21: Validate fails with NoProxy when, and only when, neither
   ProxyAddresses nor any list of PrefixRouter holds a non-empty address; the
   nil request is rejected. *)
NoProxyIffNoAddress ==
    Validated =>
        ((ValidateError = "errEmptyProxyAddress") <=> ~SomeAddress(listen.req))

(* C22: Validate fails with NoDomains when the request is not HTTP1, has a
   proxy address and has no non-blank domain; in HTTP1 mode it never fails with
   NoDomains; when both a proxy address and a domain are missing it fails with
   NoProxy. *)
NoDomainsInTLSMode ==
    Validated =>
        /\ (SomeAddress(listen.req) /\ ~listen.req.HTTP1 /\ ~SomeDomain(listen.req))
              => ValidateError = "errEmptyDomains"
        /\ (~listen.req.isNil /\ listen.req.HTTP1)
              => ValidateError # "errEmptyDomains"
        /\ (~SomeAddress(listen.req) /\ ~SomeDomain(listen.req))
              => ValidateError = "errEmptyProxyAddress"

\* the trimmed non-blank entries of the request's Domains, the place of the
\* first entry that trims to d, and the places of d in a list
TrimmedDomains ==
    { TrimSpace(listen.req.Domains[i]) : i \in 1..Len(listen.req.Domains) } \ {NoString}
FirstEntry(d) ==
    CHOOSE i \in 1..Len(listen.req.Domains) :
        /\ TrimSpace(listen.req.Domains[i]) = d
        /\ \A j \in 1..(i - 1) : TrimSpace(listen.req.Domains[j]) # d
Places(list, d) == { i \in 1..Len(list) : list[i] = d }

(* C23: the synthesized list holds every trimmed non-blank domain exactly once,
   in the order of first occurrence, and no name twice; with auto-www, every
   domain that does not start with "www." is followed by "www." + domain, unless
   that name stands earlier in the list, and nothing else is added; with
   NoAutoWWW nothing is added. *)
DomainsSynthesized ==
    listen.pc = "synthesized" =>
        LET out == listen.madeDomains
            auto == ~listen.req.NoAutoWWW
            added == IF auto THEN { WwwDot \o d : d \in TrimmedDomains } ELSE {}
        IN  /\ \A d \in TrimmedDomains : Cardinality(Places(out, d)) = 1
            /\ \A i, j \in 1..Len(out) : out[i] = out[j] => i = j
            /\ { out[i] : i \in 1..Len(out) } \subseteq TrimmedDomains \cup added
            /\ \A d, e \in TrimmedDomains \ added :
                  FirstEntry(d) < FirstEntry(e) =>
                      \A i \in Places(out, d), j \in Places(out, e) : i < j
            /\ auto =>
                  \A d \in TrimmedDomains :
                      ~HasPrefix(d, WwwDot) =>
                          \E k \in Places(out, WwwDot \o d) :
                              \A i \in Places(out, d) : k = i + 1 \/ k < i
            /\ ~auto => { out[i] : i \in 1..Len(out) } = TrimmedDomains

(* C24: synthesis is idempotent: synthesizing the list that SynthesizeDomains
   returned, under the same NoAutoWWW setting, returns that list again. *)
SynthesisIdempotent ==
    listen.pc = "synthesized" =>
        SynthesizeDomains(listen.madeDomains, listen.req.NoAutoWWW) = listen.madeDomains
\* a synthesis that trimmed, dropped a repeated name and added a www name
SynthesisIdempotentWitness ==
    /\ listen.pc = "synthesized"
    /\ ~listen.req.NoAutoWWW
    /\ listen.req.Domains = << <<" ", "a">>, <<"a">>, WwwDot \o <<"a">> >>
    /\ listen.madeDomains = << <<"a">>, WwwDot \o <<"a">> >>

\* an AddPeer call of caller c has returned
AddPeerReturned(c) == membership.pc = "run" /\ membership.callers[c].pc = "returned"

(* C25: an AddPeer call whose peer has a blank ID after trimming returns
   errBlankPeerID and leaves the membership as it was; any other call returns
   nil and leaves the peer recorded under its trimmed ID, every other entry as
   it was, so that adding an ID that is already a member replaces the entry and
   the membership does not grow. *)
AddPeerRecords ==
    \A c \in Callers :
        AddPeerReturned(c) =>
            LET call == membership.callers[c]
                id == TrimSpace(call.other.ID)
            IN  IF id = NoString
                THEN /\ call.err = "errBlankPeerID"
                     /\ membership.Peers = call.before
                ELSE /\ call.err = "nil"
                     /\ DOMAIN membership.Peers = DOMAIN call.before \cup {id}
                     /\ membership.Peers[id] = call.other
                     /\ \A k \in DOMAIN call.before \ {id} :
                            membership.Peers[k] = call.before[k]
\* a call has replaced the entry of an ID that was a member, given padded
AddPeerRecordsWitness ==
    /\ AddPeerReturned("c1")
    /\ membership.callers["c1"].other.ID = <<" ", "a">>
    /\ <<"a">> \in DOMAIN membership.callers["c1"].before
    /\ membership.callers["c1"].before[<<"a">>] # membership.Peers[<<"a">>]
    /\ Cardinality(DOMAIN membership.Peers) = 2

(* C27: the accesses of the membership exclude one another: while an AddPeer
   call is writing p.Peers no other AddPeer call is writing it and the snapshot
   of Liveliness is not reading it. *)
MembershipWritesExclusive ==
    membership.pc = "run" =>
        \A c \in Callers :
            Writing(c) => /\ ~Ranging
                          /\ \A c2 \in Callers \ {c} : ~Writing(c2)

(* C26: after a cycle of route r has completed, the published live list of r
   is a permutation of the addresses of the secondaries that the cycle's probe
   round returned as live: it has the same length and holds every address as
   many times as the live secondaries do. *)
PublishedIsPermutationOfLive ==
    \A r \in Routes :
        (loop[r].cycleNumber >= 1 /\ loop[r].pc \in {"send", "start"}) =>
            /\ Len(LiveList(r)) = Len(loop[r].livePeers)
            /\ \A a \in Range(prefixRouter[r]) :
                  Occurrences(LiveList(r), a) = Occurrences(loop[r].livePeers, a)
            /\ Range(LiveList(r)) \subseteq Range(prefixRouter[r])
\* a cycle published three addresses, two of them equal, in an order other than
\* the one the probe round returned
PublishedIsPermutationOfLiveWitness ==
    /\ loop[Root].cycleNumber >= 1
    /\ loop[Root].pc = "send"
    /\ loop[Root].livePeers = <<"A", "A", "B">>
    /\ LiveList(Root) = <<"B", "A", "A">>

(* C28: every prefix of the route table built from a request that Listen
   accepts begins with "/", and the empty prefix is not in the table. *)
RoutePrefixesBeginWithSlash ==
    \A i \in 1..Len(longestPrefixFirst) :
        /\ longestPrefixFirst[i] # NoString
        /\ HasPrefix(longestPrefixFirst[i], <<"/">>)

\* the Listen call is one that validation fails, or whose synthesized domain
\* list is empty although the request needs domains
StartupError ==
    /\ listen.pc # "none"
    /\ \/ Validate(listen.req) # "nil"
       \/ /\ NeedsDomains(listen.req)
          /\ SynthesizeDomains(listen.req.Domains, listen.req.NoAutoWWW) = <<>>

(* C29: a Listen call with a startup error obtains no listener, starts neither
   the redirector, the cycle loops nor the dispatch server, and returns the
   error (errEmptyProxyAddress or errEmptyDomains) and no ListenConfirmation. *)
StartupErrorsFailListen ==
    StartupError =>
        /\ listen.listeners = 0
        /\ ~listen.started
        /\ ~listen.lc
        /\ listen.pc \in {"call", "returned"}
        /\ listen.pc = "returned" =>
              listen.err = IF Validate(listen.req) # "nil"
                           THEN Validate(listen.req) ELSE "errEmptyDomains"
\* a call in TLS mode with a proxy and only blank domains has returned
StartupErrorsFailListenWitness ==
    /\ StartupError
    /\ listen.pc = "returned"
    /\ listen.err = "errEmptyDomains"
    /\ listen.req.Domains = << <<" ">> >>

(* C30: the body of every response that a probe receives, whatever the status,
   is read to its end before it is closed (a body whose read fails has no end
   to reach and is left out). *)
BodyDrainedBeforeClose ==
    \A id \in Probed :
        (ll.probe[id].out.kind = "response" /\ ll.probe[id].out.body # "broken") =>
            /\ ll.probe[id].read
            /\ ll.probe[id].closes = 1

(* C31: the feedback of a cycle goes over a rendezvous channel: a loop that has
   published cycle k stays in its send, and so neither sleeps nor starts cycle
   k+1, until a consumer receives the feedback; no consumer is attached, so
   every loop stays in the send of its first cycle and no second cycle starts. *)
FeedbackIsRendezvous ==
    /\ [](\A r \in Routes : loop[r].cycleNumber <= 1)
    /\ [][\A r \in Routes :
             (loop[r].pc = "send" /\ r \notin feedbackChanMap) =>
                 /\ loop'[r] = loop[r]
                 /\ MapGet(liveAddresses', r, <<>>) = LiveList(r)]_vars
\* every loop has published its first cycle and is in its send, one of them
\* with a live list that is not empty
FeedbackIsRendezvousWitness ==
    /\ \A r \in Routes : loop[r].pc = "send" /\ loop[r].cycleNumber = 1
    /\ \E r \in Routes : LiveList(r) # <<>>

\* the addresses configured under route r
Configured(r) == Range(prefixRouter[r])

(* C32: the live list of every route holds only addresses configured under
   that route, and every address a dispatcher selects for a request matched to
   a route is an address configured under that route. *)
RoutingIsolation ==
    /\ \A r \in Routes :
          /\ Range(LiveList(r)) \subseteq Configured(r)
          /\ \A i \in 1..Len(sel[r]) : sel[r][i].addr \in Configured(r)
    /\ \A d \in Dispatchers :
          disp[d].pc = "rrInc" => disp[d].addr \in Configured(disp[d].route)
\* both routes have a live list, and requests matched to each of them have
\* been given an address
RoutingIsolationWitness ==
    /\ LiveList(Root) # <<>> /\ LiveList(Foo) # <<>>
    /\ Len(sel[Root]) >= 1 /\ Len(sel[Foo]) >= 1
    /\ \E d \in Dispatchers : disp[d].pc = "rrInc" /\ disp[d].route = Foo

(* C33: a step of the cycle of route p changes no live list and no cursor but
   p's, a step of a dispatch on route p changes no live list and no cursor but
   p's cursor, and no step changes the ordered prefix list or the table from
   prefixes to their backends. *)
PerPrefixFrame ==
    [][/\ longestPrefixFirst' = longestPrefixFirst
       /\ prefixRouter' = prefixRouter
       /\ \A p \in Routes :
             loop'[p] # loop[p] =>
                 \A q \in Routes \ {p} :
                     /\ MapGet(liveAddresses', q, <<>>) = LiveList(q)
                     /\ MapGet(next', q, 0) = Cursor(q)
       /\ \A d \in Dispatchers :
             disp'[d] # disp[d] =>
                 /\ \A q \in Routes : MapGet(liveAddresses', q, <<>>) = LiveList(q)
                 /\ \A q \in Routes \ {disp[d].route} :
                        MapGet(next', q, 0) = Cursor(q)]_vars
\* a second cycle of "/" has published and a request on "/" has been given an
\* address, while "/foo" has a live list and a cursor that has moved
PerPrefixFrameWitness ==
    /\ loop[Root].cycleNumber = 2 /\ loop[Root].pc = "send"
    /\ Len(sel[Root]) >= 1 /\ Cursor(Root) = 1
    /\ LiveList(Foo) = <<"C">> /\ Cursor(Foo) = 1
====
